---- MODULE Spec2Model ----
(***************************************************************************)
(* The in-memory todo repository (infra/src/in_mem/todo_repo.rs) and the   *)
(* domain service in front of it (domain/src/services/todo_service.rs).    *)
(* The controller (api/src/controllers/todo_controller.rs) and the route    *)
(* handlers (api/src/handlers/todo_routes_handler.rs) sit on top of them.  *)
(* Several callers invoke operations at these layers concurrently;         *)
(* every repository operation first awaits the store's futures_locks       *)
(* Mutex and then runs its body while it holds the guard.                  *)
(***************************************************************************)
EXTENDS Integers, Sequences, FiniteSets, TLC

\* number of create calls explored (caps the u64 counter last_id)
MaxCreates == 2
\* two concurrent callers of the one shared store
Callers == {1, 2}
NoCaller == 0
\* ids a caller may ask for: MaxCreates + 1 is never issued
TodoIds == 1..(MaxCreates + 1)
\* task texts: the empty string, a whitespace-only text and an ordinary one
Tasks == {"", " ", "a"}
\* the largest value of the u64 counter, scaled down to the model: one more
\* than the creates explored where the counter must not wrap
U64_MAX == MaxCreates + 1

VARIABLES
    data,        \* Data { last_id, storage } behind the Mutex
    mutex,       \* the caller holding the MutexGuard, or NoCaller
    pc,          \* where each caller is in its call
    req,         \* the call each caller is making
    ret,         \* the value the caller's call is about to return
    next_id,     \* create's local next_id
    repo_called, \* how many repository operations the caller's call invoked
    trace,       \* the service calls the caller's call made and what each layer
                 \* below the one called returned
    created,     \* ids returned by create, in the order they were returned
    deleted,     \* ids for which delete returned Ok
    fresh,       \* id -> Todo returned by create, until the id is updated or deleted
    serial,      \* the sequential map-plus-counter, stepped at lock acquisition
    expect       \* the result the sequential store gave the caller

\* the state of one repository and of the calls made on it
repo_vars == <<data, mutex, pc, req, ret, next_id, repo_called, trace,
               created, deleted, fresh, serial, expect>>

\* the workers of the server
Workers == {1, 2}

VARIABLES
    heap,         \* the Data behind each Mutex that new() has built, by address
    todo_service, \* for each worker, the address its service's todo_repo
                  \* refers to, or NoService before the worker's App is built
    response,     \* the controller call a worker has answered, its result and
                  \* how many Todos had been made when it ran
    made          \* the Todos the controllers' create returned, with the worker

server_vars == <<heap, todo_service, response, made>>

vars == <<data, mutex, pc, req, ret, next_id, repo_called, trace,
          created, deleted, fresh, serial, expect,
          heap, todo_service, response, made>>

----------------------------------------------------------------------------
\* Values

Todo(id, task) == [id |-> id, task |-> task]
TodoData(task) == [task |-> task]

Val_Todo(t) == [kind |-> "Todo", todo |-> t]
Val_Vec(v) == [kind |-> "Vec", vec |-> v]
Ok_Todo(t) == [kind |-> "Ok", todo |-> t]
Ok_Unit == [kind |-> "Ok"]
Err(e) == [kind |-> "Err", err |-> e]
NoRet == [kind |-> "None"]
\* a panic unwinding out of the call
Panic == [kind |-> "Panic"]
\* the handlers' Ok(web::Json(..)) of a Vec<Todo> and of a Message
Ok_Vec(v) == [kind |-> "Ok", vec |-> v]
Ok_Message(m) == [kind |-> "Ok", message |-> m]
\* Message { message: format!(fmt, arg) }
Message(fmt, arg) == [fmt |-> fmt, arg |-> arg]

TodoRepoErr_NotFound(id) == [enum |-> "TodoRepoErr::NotFound", id |-> id]
TodoServiceLookupErr_NotFound(id) == [enum |-> "TodoServiceLookupErr::NotFound", id |-> id]
TodoServiceDataErr_InvalidData(task) == [enum |-> "TodoServiceDataErr::InvalidData", task |-> task]
TodoServiceUpdateErr_LookupErr(e) == [enum |-> "TodoServiceUpdateErr::LookupErr", inner |-> e]
TodoServiceUpdateErr_DataErr(e) == [enum |-> "TodoServiceUpdateErr::DataErr", inner |-> e]
TodoControllerLookupErr_NotFound(id) == [enum |-> "TodoControllerLookupErr::NotFound", id |-> id]
TodoControllerDataErr_InvalidData(task) == [enum |-> "TodoControllerDataErr::InvalidData", task |-> task]
TodoControllerUpdateErr_LookupErr(e) == [enum |-> "TodoControllerUpdateErr::LookupErr", inner |-> e]
TodoControllerUpdateErr_DataErr(e) == [enum |-> "TodoControllerUpdateErr::DataErr", inner |-> e]
BadTask(task) == [enum |-> "TodoRoutesError::BadTask", task |-> task]
NoSuchTask(id) == [enum |-> "TodoRoutesError::NoSuchTask", id |-> id]

NoReq == [layer |-> "none", op |-> "none", id |-> 0, task |-> "", conc |-> FALSE,
          after_get |-> FALSE]
NoTrace == [service_called |-> 0, repo |-> NoRet, service |-> NoRet, controller |-> NoRet]

\* HashMap helpers
insert(m, k, v) == [i \in DOMAIN m \cup {k} |-> IF i = k THEN v ELSE m[i]]
remove(m, k) == [i \in DOMAIN m \ {k} |-> m[i]]

\* a store whose counter starts at 1
new_from_one == [last_id |-> 1, storage |-> <<>>]

new == [last_id |-> 0, storage |-> <<>>]

----------------------------------------------------------------------------
\* Vec::sort_by(|a, b| a.id.cmp(&b.id)): a stable sort, here by insertion

RECURSIVE sort_insert(_, _)
sort_insert(x, s) ==
    IF s = <<>> THEN <<x>>
    ELSE IF x.id < Head(s).id THEN <<x>> \o s
    ELSE <<Head(s)>> \o sort_insert(x, Tail(s))

\* a list that returns the entries in iteration order
sort_by_unsorted(vec) == vec

RECURSIVE sort_by(_)
sort_by(vec) ==
    IF vec = <<>> THEN <<>>
    ELSE sort_insert(Head(vec), sort_by(Tail(vec)))

\* the orders in which HashMap::iter may visit the keys of a map
iter(storage) ==
    {o \in [1..Cardinality(DOMAIN storage) -> DOMAIN storage] :
        \A i, j \in DOMAIN o : i # j => o[i] # o[j]}

----------------------------------------------------------------------------
\* Repository operation bodies, as functions of the locked Data.
\* Each yields the Data afterwards and the value returned.

\* a get that takes the entry out of the map as it reads it
get_body_take(d, todo_id) ==
    [data |-> [d EXCEPT !.storage = remove(d.storage, todo_id)],
     ret  |-> IF todo_id \in DOMAIN d.storage
              THEN Ok_Todo(Todo(todo_id, d.storage[todo_id].task))
              ELSE Err(TodoRepoErr_NotFound(todo_id))]

get_body(d, todo_id) ==
    [data |-> d,
     ret  |-> IF todo_id \in DOMAIN d.storage
              THEN Ok_Todo(Todo(todo_id, d.storage[todo_id].task))
              ELSE Err(TodoRepoErr_NotFound(todo_id))]

list_body(d, order) ==
    LET vec == [i \in DOMAIN order |-> Todo(order[i], d.storage[order[i]].task)]
    IN  [data |-> d, ret |-> Val_Vec(sort_by(vec))]

\* a delete that looks the entry up without removing it
delete_body_keep(d, todo_id) ==
    [data |-> d,
     ret  |-> IF todo_id \in DOMAIN d.storage
              THEN Ok_Unit
              ELSE Err(TodoRepoErr_NotFound(todo_id))]

delete_body(d, todo_id) ==
    IF todo_id \in DOMAIN d.storage
    THEN [data |-> [d EXCEPT !.storage = remove(d.storage, todo_id)],
          ret  |-> Ok_Unit]
    ELSE [data |-> d, ret |-> Err(TodoRepoErr_NotFound(todo_id))]

\* an update that writes the new task into every entry of the map
update_body_all(d, todo) ==
    IF todo.id \in DOMAIN d.storage
    THEN [data |-> [d EXCEPT !.storage =
                        [id \in DOMAIN d.storage |-> [task |-> todo.task]]],
          ret  |-> Ok_Unit]
    ELSE [data |-> d, ret |-> Err(TodoRepoErr_NotFound(todo.id))]

\* an update that answers Ok for an occupied entry without writing it
update_body_stale(d, todo) ==
    [data |-> d,
     ret  |-> IF todo.id \in DOMAIN d.storage
              THEN Ok_Unit
              ELSE Err(TodoRepoErr_NotFound(todo.id))]

\* an update that inserts whether or not the entry exists
update_body_upsert(d, todo) ==
    [data |-> [d EXCEPT !.storage = insert(d.storage, todo.id, [task |-> todo.task])],
     ret  |-> Ok_Unit]

update_body(d, todo) ==
    IF todo.id \in DOMAIN d.storage
    THEN [data |-> [d EXCEPT !.storage = insert(d.storage, todo.id, [task |-> todo.task])],
          ret  |-> Ok_Unit]
    ELSE [data |-> d, ret |-> Err(TodoRepoErr_NotFound(todo.id))]

\* a create that numbers the new entry by the size of the map
create_next_by_len(d) == Cardinality(DOMAIN d.storage) + 1

\* create's three statements; the u64 addition wraps where the build does
\* not check it
create_next(d) == (d.last_id + 1) % (U64_MAX + 1)

\* a create that does not write last_id back
create_set_last_skip(d, id) == d

create_set_last(d, id) == [d EXCEPT !.last_id = id]

\* a create that persists a default PersistedTodo instead of the given task
create_store_blank(d, id, todo_data) ==
    [data |-> [d EXCEPT !.storage = insert(d.storage, id, [task |-> ""])],
     ret  |-> Val_Todo(Todo(id, todo_data.task))]

create_store(d, id, todo_data) ==
    [data |-> [d EXCEPT !.storage = insert(d.storage, id, [task |-> todo_data.task])],
     ret  |-> Val_Todo(Todo(id, todo_data.task))]

----------------------------------------------------------------------------
\* Domain service: validation and error conversions

\* a check that trims the text first
is_empty_trimmed(task) == task \in {"", " "}

is_empty(task) == Len(task) = 0

validate_task(task) ==
    IF is_empty(task)
    THEN Err(TodoServiceDataErr_InvalidData(task))
    ELSE Ok_Unit

From_TodoRepoErr_for_TodoServiceLookupErr(repo_err) ==
    TodoServiceLookupErr_NotFound(repo_err.id)

From_TodoServiceDataErr_for_TodoServiceUpdateErr(err) ==
    TodoServiceUpdateErr_DataErr(err)

From_TodoRepoErr_for_TodoServiceUpdateErr(repo_err) ==
    TodoServiceUpdateErr_LookupErr(From_TodoRepoErr_for_TodoServiceLookupErr(repo_err))

\* what the service makes of the value the repository returned
service_result(op, r) ==
    CASE op = "create" -> Ok_Todo(r.todo)
      [] op = "list"   -> r
      [] op = "update" ->
            IF r.kind = "Err"
            THEN Err(From_TodoRepoErr_for_TodoServiceUpdateErr(r.err))
            ELSE Ok_Unit
      [] OTHER ->
            IF r.kind = "Err"
            THEN Err(From_TodoRepoErr_for_TodoServiceLookupErr(r.err))
            ELSE r

----------------------------------------------------------------------------
\* Controller: conversions between api and domain models, error conversions

From_api_TodoId(v) == v
From_api_TodoData(v) == TodoData(v.task)
From_api_Todo(v) == Todo(From_api_TodoId(v.id), v.task)
From_domain_TodoId(v) == v
From_domain_Todo(v) == Todo(From_domain_TodoId(v.id), v.task)

\* a conversion that does not carry the id over
From_TodoServiceLookupErr_for_TodoControllerLookupErr_no_id(e) ==
    TodoControllerLookupErr_NotFound(0)

From_TodoServiceLookupErr_for_TodoControllerLookupErr(e) ==
    TodoControllerLookupErr_NotFound(From_domain_TodoId(e.id))

From_TodoServiceDataErr_for_TodoControllerDataErr(e) ==
    TodoControllerDataErr_InvalidData(e.task)

From_TodoServiceUpdateErr_for_TodoControllerUpdateErr(err) ==
    IF err.enum = "TodoServiceUpdateErr::DataErr"
    THEN TodoControllerUpdateErr_DataErr(
            From_TodoServiceDataErr_for_TodoControllerDataErr(err.inner))
    ELSE TodoControllerUpdateErr_LookupErr(
            From_TodoServiceLookupErr_for_TodoControllerLookupErr(err.inner))

\* what the controller makes of the value the service returned
controller_result(op, r) ==
    CASE op = "create" ->
            IF r.kind = "Err"
            THEN Err(From_TodoServiceDataErr_for_TodoControllerDataErr(r.err))
            ELSE Ok_Todo(From_domain_Todo(r.todo))
      [] op = "get" ->
            IF r.kind = "Err"
            THEN Err(From_TodoServiceLookupErr_for_TodoControllerLookupErr(r.err))
            ELSE Ok_Todo(From_domain_Todo(r.todo))
      [] op = "list" ->
            Val_Vec([i \in DOMAIN r.vec |-> From_domain_Todo(r.vec[i])])
      [] op = "update" ->
            IF r.kind = "Err"
            THEN Err(From_TodoServiceUpdateErr_for_TodoControllerUpdateErr(r.err))
            ELSE Ok_Unit
      [] op = "delete" ->
            IF r.kind = "Err"
            THEN Err(From_TodoServiceLookupErr_for_TodoControllerLookupErr(r.err))
            ELSE Ok_Unit

----------------------------------------------------------------------------
\* Route handlers: TodoRoutesError and its HTTP response

From_TodoControllerDataErr_for_TodoRoutesError(e) == BadTask(e.task)

From_TodoControllerLookupErr_for_TodoRoutesError(e) == NoSuchTask(e.id)

\* a conversion that answers every failed update as a missing task
From_TodoControllerUpdateErr_for_TodoRoutesError_lookup_only(e) ==
    NoSuchTask(IF e.enum = "TodoControllerUpdateErr::LookupErr" THEN e.inner.id ELSE 0)

From_TodoControllerUpdateErr_for_TodoRoutesError(e) ==
    IF e.enum = "TodoControllerUpdateErr::LookupErr"
    THEN From_TodoControllerLookupErr_for_TodoRoutesError(e.inner)
    ELSE From_TodoControllerDataErr_for_TodoRoutesError(e.inner)

error_response(e) ==
    IF e.enum = "TodoRoutesError::BadTask"
    THEN [status |-> 400, json |-> Message("Invalid task: [{}]", e.task)]
    ELSE [status |-> 404, json |-> Message("No such todo: [{:?}]", e.id)]

\* what the handler makes of the value the controller returned
handler_result(rq, r) ==
    CASE rq.op = "create" ->
            IF r.kind = "Err"
            THEN Err(From_TodoControllerDataErr_for_TodoRoutesError(r.err))
            ELSE Ok_Todo(r.todo)
      [] rq.op = "get" ->
            IF r.kind = "Err"
            THEN Err(From_TodoControllerLookupErr_for_TodoRoutesError(r.err))
            ELSE Ok_Todo(r.todo)
      [] rq.op = "list" -> Ok_Vec(r.vec)
      [] rq.op = "delete" ->
            IF r.kind = "Err"
            THEN Err(From_TodoControllerLookupErr_for_TodoRoutesError(r.err))
            ELSE Ok_Message(Message("Successfully deleted: [{:?}]", rq.id))
      [] rq.op = "update" ->
            IF r.kind = "Err"
            THEN Err(From_TodoControllerUpdateErr_for_TodoRoutesError(r.err))
            ELSE Ok_Message(Message("Successfully updated: [{:?}]", rq.id))

\* the value the caller receives for what the service returned, by the layer
\* it called
from_service(rq, r) ==
    CASE rq.layer = "service"    -> r
      [] rq.layer = "controller" -> controller_result(rq.op, r)
      [] rq.layer = "handler"    -> handler_result(rq, controller_result(rq.op, r))

\* the value the caller receives, by the layer it called
result(rq, r) == IF rq.layer = "repo" THEN r ELSE from_service(rq, service_result(rq.op, r))

\* what the layers below the one called returned
trace_of(rq, r) ==
    [service_called |-> IF rq.layer = "repo" THEN 0 ELSE 1,
     repo       |-> r,
     service    |-> IF rq.layer = "repo" THEN NoRet ELSE service_result(rq.op, r),
     controller |-> IF rq.layer \in {"controller", "handler"}
                    THEN controller_result(rq.op, service_result(rq.op, r))
                    ELSE NoRet]

----------------------------------------------------------------------------
\* The state machine

\* let todo_repo = todo_repo::new(): the address of the Data it builds
todo_repo == 1
NoService == 0
NoResponse == [op |-> "none", id |-> 0, ret |-> NoRet, seen |-> 0]

\* #[derive(Clone)] on InMemTodoRepo clones the Mutex, and a clone of a Mutex
\* is another handle on the same Data
clone(repo) == repo

Init ==
    /\ data = new
    /\ mutex = NoCaller
    /\ pc = [p \in Callers |-> "idle"]
    /\ req = [p \in Callers |-> NoReq]
    /\ ret = [p \in Callers |-> NoRet]
    /\ next_id = [p \in Callers |-> 0]
    /\ repo_called = [p \in Callers |-> 0]
    /\ trace = [p \in Callers |-> NoTrace]
    /\ created = <<>>
    /\ deleted = {}
    /\ fresh = <<>>
    /\ serial = new
    /\ expect = [p \in Callers |-> NoRet]
    /\ heap = <<new>>
    /\ todo_service = [w \in Workers |-> NoService]
    /\ response = [w \in Workers |-> NoResponse]
    /\ made = <<>>

InFlight(p) == pc[p] # "idle"

\* create calls are explored until n ids have been asked for
CanCreateUpTo(n) ==
    Len(created)
      + Cardinality({q \in Callers : pc[q] \notin {"idle", "return"} /\ req[q].op = "create"})
        < n

CanCreate == CanCreateUpTo(MaxCreates)

\* a caller starts a repository operation: the future will next await the lock
invoke(p, layer, op, id, task) ==
    /\ pc[p] = "idle"
    /\ pc' = [pc EXCEPT ![p] = op]
    /\ req' = [req EXCEPT ![p] =
                [layer |-> layer, op |-> op, id |-> id, task |-> task,
                 conc |-> op = "create" /\ \E q \in Callers \ {p} :
                                              InFlight(q) /\ req[q].op = op,
                 after_get |-> FALSE]]
    /\ repo_called' = [repo_called EXCEPT ![p] = 1]
    /\ trace' = [trace EXCEPT ![p] =
                    [NoTrace EXCEPT !.service_called = IF layer = "repo" THEN 0 ELSE 1]]
    /\ UNCHANGED <<data, mutex, ret, next_id, created, deleted, fresh, serial, expect>>
    /\ UNCHANGED server_vars

\* the service answers a call with r without reaching the repository
reject(p, layer, op, id, task, r) ==
    /\ pc[p] = "idle"
    /\ pc' = [pc EXCEPT ![p] = "return"]
    /\ LET rq == [layer |-> layer, op |-> op, id |-> id, task |-> task,
                  conc |-> FALSE, after_get |-> FALSE] IN
        /\ req' = [req EXCEPT ![p] = rq]
        /\ ret' = [ret EXCEPT ![p] = from_service(rq, r)]
        /\ trace' = [trace EXCEPT ![p] =
                        [service_called |-> 1, repo |-> NoRet, service |-> r,
                         controller |-> IF layer = "service" THEN NoRet
                                        ELSE controller_result(op, r)]]
    /\ repo_called' = [repo_called EXCEPT ![p] = 0]
    /\ UNCHANGED <<data, mutex, next_id, created, deleted, fresh, serial, expect>>
    /\ UNCHANGED server_vars

\* direct calls of the repository
repo_create(p, todo_data) == CanCreate /\ invoke(p, "repo", "create", 0, todo_data.task)
repo_get(p, todo_id) == invoke(p, "repo", "get", todo_id, "")
repo_list(p) == invoke(p, "repo", "list", 0, "")
repo_delete(p, todo_id) == invoke(p, "repo", "delete", todo_id, "")
repo_update(p, todo) == invoke(p, "repo", "update", todo.id, todo.task)

\* the service operations, called directly or through the layers above
service_create_for(p, layer, todo_data) ==
    LET v == validate_task(todo_data.task) IN
    IF v.kind = "Err"
    THEN reject(p, layer, "create", 0, todo_data.task, Err(v.err))
    ELSE CanCreate /\ invoke(p, layer, "create", 0, todo_data.task)

service_get_for(p, layer, todo_id) == invoke(p, layer, "get", todo_id, "")
service_list_for(p, layer) == invoke(p, layer, "list", 0, "")
service_delete_for(p, layer, todo_id) == invoke(p, layer, "delete", todo_id, "")

\* a service update that looks the id up before it checks the task
service_update_lookup_first(p, layer, todo) ==
    IF todo.id \notin DOMAIN data.storage
    THEN reject(p, layer, "update", todo.id, todo.task,
                Err(From_TodoRepoErr_for_TodoServiceUpdateErr(TodoRepoErr_NotFound(todo.id))))
    ELSE LET v == validate_task(todo.task) IN
         IF v.kind = "Err"
         THEN reject(p, layer, "update", todo.id, todo.task,
                     Err(From_TodoServiceDataErr_for_TodoServiceUpdateErr(v.err)))
         ELSE invoke(p, layer, "update", todo.id, todo.task)

\* a service update that passes the Todo on without looking at its task
service_update_unchecked(p, layer, todo) ==
    invoke(p, layer, "update", todo.id, todo.task)

service_update_for(p, layer, todo) ==
    LET v == validate_task(todo.task) IN
    IF v.kind = "Err"
    THEN reject(p, layer, "update", todo.id, todo.task,
                Err(From_TodoServiceDataErr_for_TodoServiceUpdateErr(v.err)))
    ELSE invoke(p, layer, "update", todo.id, todo.task)

\* calls of the service
\* a service create that validates only after the repository has created
service_create_validate_last(p, todo_data) ==
    LET v == validate_task(todo_data.task) IN
    IF v.kind = "Err"
    THEN /\ pc[p] = "idle"
         /\ mutex = NoCaller
         /\ CanCreate
         /\ LET r == create_store(create_set_last(data, create_next(data)),
                                  create_next(data), todo_data) IN
             /\ data' = r.data
             /\ serial' = r.data
             /\ created' = Append(created, r.ret.todo.id)
             /\ fresh' = insert(fresh, r.ret.todo.id, r.ret.todo)
         /\ mutex' = p
         /\ pc' = [pc EXCEPT ![p] = "return"]
         /\ req' = [req EXCEPT ![p] =
                     [layer |-> "service", op |-> "create", id |-> 0,
                      task |-> todo_data.task, conc |-> FALSE, after_get |-> FALSE]]
         /\ ret' = [ret EXCEPT ![p] = Err(v.err)]
         /\ repo_called' = [repo_called EXCEPT ![p] = 1]
         /\ trace' = [trace EXCEPT ![p] = [NoTrace EXCEPT !.service_called = 1]]
         /\ UNCHANGED <<next_id, deleted, expect>>
         /\ UNCHANGED server_vars
    ELSE CanCreate /\ invoke(p, "service", "create", 0, todo_data.task)

service_create(p, todo_data) == service_create_for(p, "service", todo_data)
service_get(p, todo_id) == service_get_for(p, "service", todo_id)
service_list(p) == service_list_for(p, "service")
service_delete(p, todo_id) == service_delete_for(p, "service", todo_id)
service_update(p, todo) == service_update_for(p, "service", todo)

\* the controller operations, called directly or by a handler: each converts
\* its argument and calls the service
controller_create_for(p, layer, todo_data) ==
    service_create_for(p, layer, From_api_TodoData(todo_data))
controller_get_for(p, layer, todo_id) ==
    service_get_for(p, layer, From_api_TodoId(todo_id))
controller_list_for(p, layer) == service_list_for(p, layer)
controller_delete_for(p, layer, todo_id) ==
    service_delete_for(p, layer, From_api_TodoId(todo_id))

\* a controller update that checks the task itself and skips the service
controller_update_checked(p, layer, todo) ==
    IF todo.task = ""
    THEN /\ pc[p] = "idle"
         /\ pc' = [pc EXCEPT ![p] = "return"]
         /\ LET rq == [layer |-> layer, op |-> "update", id |-> todo.id, task |-> todo.task,
                       conc |-> FALSE, after_get |-> FALSE]
                e  == Err(TodoControllerUpdateErr_DataErr(
                            TodoControllerDataErr_InvalidData(todo.task))) IN
             /\ req' = [req EXCEPT ![p] = rq]
             /\ ret' = [ret EXCEPT ![p] =
                            IF layer = "handler" THEN handler_result(rq, e) ELSE e]
             /\ trace' = [trace EXCEPT ![p] = [NoTrace EXCEPT !.controller = e]]
         /\ repo_called' = [repo_called EXCEPT ![p] = 0]
         /\ UNCHANGED <<data, mutex, next_id, created, deleted, fresh, serial, expect>>
         /\ UNCHANGED server_vars
    ELSE service_update_for(p, layer, From_api_Todo(todo))

controller_update_for(p, layer, todo) ==
    service_update_for(p, layer, From_api_Todo(todo))

\* calls of the controller
controller_create(p, todo_data) == controller_create_for(p, "controller", todo_data)
controller_get(p, todo_id) == controller_get_for(p, "controller", todo_id)
controller_list(p) == controller_list_for(p, "controller")
controller_delete(p, todo_id) == controller_delete_for(p, "controller", todo_id)
controller_update(p, todo) == controller_update_for(p, "controller", todo)

\* requests to the route handlers
handler_list(p) == controller_list_for(p, "handler")
handler_create(p, json) == controller_create_for(p, "handler", json)
handler_get(p, id) == controller_get_for(p, "handler", id)
handler_delete(p, id) == controller_delete_for(p, "handler", id)
handler_update(p, id, json) == controller_update_for(p, "handler", Todo(id, json.task))

\* the operation the sequential store performs for a request
serial_apply(d, rq) ==
    CASE rq.op = "create" ->
            create_store(create_set_last(d, create_next(d)), create_next(d), TodoData(rq.task))
      [] rq.op = "get"    -> get_body(d, rq.id)
      [] rq.op = "list"   -> list_body(d, CHOOSE o \in iter(d.storage) : TRUE)
      [] rq.op = "delete" -> delete_body(d, rq.id)
      [] rq.op = "update" -> update_body(d, Todo(rq.id, rq.task))

\* a lock that hands out the guard while another caller holds it
lock_shared(p) == mutex' = p

\* self.data.lock().compat().await: the caller gets the guard once it is free
lock(p) ==
    /\ mutex = NoCaller
    /\ mutex' = p

\* unlock, with the sequential store stepped at the moment of acquisition
unlock(p) ==
    /\ lock(p)
    /\ LET s == serial_apply(serial, req[p]) IN
        /\ serial' = s.data
        /\ expect' = [expect EXCEPT ![p] = result(req[p], s.ret)]

\* the body has its return value; the guard is still in scope
body_done(p, r) ==
    /\ pc' = [pc EXCEPT ![p] = "return"]
    /\ data' = r.data
    /\ ret' = [ret EXCEPT ![p] = result(req[p], r.ret)]
    /\ trace' = [trace EXCEPT ![p] = trace_of(req[p], r.ret)]
    /\ UNCHANGED <<req, repo_called>>
    /\ UNCHANGED server_vars

\* let next_id = data.last_id.0 + 1: at the largest u64 the addition panics
\* in a build with overflow checks and wraps to 0 in one without
create(p) ==
    /\ pc[p] = "create"
    /\ unlock(p)
    /\ \/ /\ next_id' = [next_id EXCEPT ![p] = create_next(data)]
          /\ pc' = [pc EXCEPT ![p] = "create_last_id"]
          /\ UNCHANGED ret
       \/ /\ data.last_id = U64_MAX
          /\ pc' = [pc EXCEPT ![p] = "return"]
          /\ ret' = [ret EXCEPT ![p] = Panic]
          /\ UNCHANGED next_id
    /\ UNCHANGED <<data, req, repo_called, trace, created, deleted, fresh>>
    /\ UNCHANGED server_vars

\* a create that lets go of the guard once last_id is written
create_last_id_release(p) ==
    /\ pc[p] = "create_last_id"
    /\ data' = create_set_last(data, next_id[p])
    /\ pc' = [pc EXCEPT ![p] = "create_insert"]
    /\ mutex' = NoCaller
    /\ UNCHANGED <<req, ret, next_id, repo_called, trace, created, deleted, fresh, serial, expect>>
    /\ UNCHANGED server_vars

create_last_id(p) ==
    /\ pc[p] = "create_last_id"
    /\ data' = create_set_last(data, next_id[p])
    /\ pc' = [pc EXCEPT ![p] = "create_insert"]
    /\ UNCHANGED <<mutex, req, ret, next_id, repo_called, trace, created, deleted, fresh, serial, expect>>
    /\ UNCHANGED server_vars

create_insert(p) ==
    /\ pc[p] = "create_insert"
    /\ LET r == create_store(data, next_id[p], TodoData(req[p].task)) IN
        /\ body_done(p, r)
        /\ created' = Append(created, r.ret.todo.id)
        /\ fresh' = insert(fresh, r.ret.todo.id, r.ret.todo)
    /\ next_id' = [next_id EXCEPT ![p] = 0]
    /\ UNCHANGED <<mutex, deleted, serial, expect>>

get(p) ==
    /\ pc[p] = "get"
    /\ unlock(p)
    /\ body_done(p, get_body(data, req[p].id))
    /\ UNCHANGED <<next_id, created, deleted, fresh>>

list(p) ==
    /\ pc[p] = "list"
    /\ unlock(p)
    /\ \E order \in iter(data.storage) : body_done(p, list_body(data, order))
    /\ UNCHANGED <<next_id, created, deleted, fresh>>

delete(p) ==
    /\ pc[p] = "delete"
    /\ unlock(p)
    /\ LET r == delete_body(data, req[p].id) IN
        /\ body_done(p, r)
        /\ deleted' = IF r.ret = Ok_Unit THEN deleted \cup {req[p].id} ELSE deleted
    /\ fresh' = remove(fresh, req[p].id)
    /\ UNCHANGED <<next_id, created>>

update(p) ==
    /\ pc[p] = "update"
    /\ unlock(p)
    /\ body_done(p, update_body(data, Todo(req[p].id, req[p].task)))
    /\ fresh' = remove(fresh, req[p].id)
    /\ UNCHANGED <<next_id, created, deleted>>

\* a return that drops the guard only when the body succeeded
return_keep_guard_on_err(p) ==
    /\ pc[p] = "return"
    /\ mutex' = IF repo_called[p] > 0 /\ ret[p].kind # "Err" THEN NoCaller ELSE mutex
    /\ pc' = [pc EXCEPT ![p] = "idle"]
    /\ req' = [req EXCEPT ![p] = NoReq]
    /\ ret' = [ret EXCEPT ![p] = NoRet]
    /\ expect' = [expect EXCEPT ![p] = NoRet]
    /\ repo_called' = [repo_called EXCEPT ![p] = 0]
    /\ trace' = [trace EXCEPT ![p] = NoTrace]
    /\ UNCHANGED <<data, next_id, created, deleted, fresh, serial>>
    /\ UNCHANGED server_vars

\* the call returns to the caller; a guard taken by the call is dropped
return(p) ==
    /\ pc[p] = "return"
    /\ mutex' = IF repo_called[p] > 0 THEN NoCaller ELSE mutex
    /\ pc' = [pc EXCEPT ![p] = "idle"]
    /\ req' = [req EXCEPT ![p] = NoReq]
    /\ ret' = [ret EXCEPT ![p] = NoRet]
    /\ expect' = [expect EXCEPT ![p] = NoRet]
    /\ repo_called' = [repo_called EXCEPT ![p] = 0]
    /\ trace' = [trace EXCEPT ![p] = NoTrace]
    /\ UNCHANGED <<data, next_id, created, deleted, fresh, serial>>
    /\ UNCHANGED server_vars

Next ==
    \E p \in Callers :
        \/ \E t \in Tasks : repo_create(p, TodoData(t))
        \/ \E i \in TodoIds : repo_get(p, i)
        \/ repo_list(p)
        \/ \E i \in TodoIds : repo_delete(p, i)
        \/ \E i \in TodoIds, t \in Tasks : repo_update(p, Todo(i, t))
        \/ \E t \in Tasks : service_create(p, TodoData(t))
        \/ \E i \in TodoIds : service_get(p, i)
        \/ service_list(p)
        \/ \E i \in TodoIds : service_delete(p, i)
        \/ \E i \in TodoIds, t \in Tasks : service_update(p, Todo(i, t))
        \/ create(p)
        \/ create_last_id(p)
        \/ create_insert(p)
        \/ get(p)
        \/ list(p)
        \/ delete(p)
        \/ update(p)
        \/ return(p)

Spec == Init /\ [][Next]_vars

\* the server: requests arrive at the route handlers, and the controller is
\* also called directly
NextApi ==
    \E p \in Callers :
        \/ \E t \in Tasks : controller_create(p, TodoData(t))
        \/ \E i \in TodoIds : controller_get(p, i)
        \/ controller_list(p)
        \/ \E i \in TodoIds : controller_delete(p, i)
        \/ \E i \in TodoIds, t \in Tasks : controller_update(p, Todo(i, t))
        \/ \E t \in Tasks : handler_create(p, TodoData(t))
        \/ \E i \in TodoIds : handler_get(p, i)
        \/ handler_list(p)
        \/ \E i \in TodoIds : handler_delete(p, i)
        \/ \E i \in TodoIds, t \in Tasks : handler_update(p, i, TodoData(t))
        \/ create(p)
        \/ create_last_id(p)
        \/ create_insert(p)
        \/ get(p)
        \/ list(p)
        \/ delete(p)
        \/ update(p)
        \/ return(p)

SpecApi == Init /\ [][NextApi]_vars

\* the tasks of the scenario: the first create says hello, the later ones bye
ScenarioTask(n) == IF n = 1 THEN "say hello" ELSE "say bye"

CreatesAskedFor ==
    Len(created)
      + Cardinality({q \in Callers : pc[q] \notin {"idle", "return"} /\ req[q].op = "create"})

\* the repository used as in the scenario: creates, deletes, gets and lists
NextScenario ==
    \E p \in Callers :
        \/ repo_create(p, TodoData(ScenarioTask(CreatesAskedFor + 1)))
        \/ \E i \in TodoIds : repo_get(p, i)
        \/ repo_list(p)
        \/ \E i \in TodoIds : repo_delete(p, i)
        \/ create(p)
        \/ create_last_id(p)
        \/ create_insert(p)
        \/ get(p)
        \/ list(p)
        \/ delete(p)
        \/ return(p)

SpecScenario == Init /\ [][NextScenario]_vars

\* the five repository operations and their steps
NextRepo ==
    \E p \in Callers :
        \/ \E t \in Tasks : repo_create(p, TodoData(t))
        \/ \E i \in TodoIds : repo_get(p, i)
        \/ repo_list(p)
        \/ \E i \in TodoIds : repo_delete(p, i)
        \/ \E i \in TodoIds, t \in Tasks : repo_update(p, Todo(i, t))
        \/ create(p)
        \/ create_last_id(p)
        \/ create_insert(p)
        \/ get(p)
        \/ list(p)
        \/ delete(p)
        \/ update(p)
        \/ return(p)

\* the repository operations with one task text: whether a call returns
\* does not depend on the text
LiveTasks == {"a"}

NextLive ==
    \E p \in Callers :
        \/ \E t \in LiveTasks : repo_create(p, TodoData(t))
        \/ \E i \in TodoIds : repo_get(p, i)
        \/ repo_list(p)
        \/ \E i \in TodoIds : repo_delete(p, i)
        \/ \E i \in TodoIds, t \in LiveTasks : repo_update(p, Todo(i, t))
        \/ create(p)
        \/ create_last_id(p)
        \/ create_insert(p)
        \/ get(p)
        \/ list(p)
        \/ delete(p)
        \/ update(p)
        \/ return(p)

\* self.unlock().await resolves for a caller that is waiting
acquire(p) == create(p) \/ get(p) \/ list(p) \/ delete(p) \/ update(p)

\* the rest of a body and its return, run by the holder of the guard
run(p) == create_last_id(p) \/ create_insert(p) \/ return(p)

\* the executor keeps polling a task that can run, and the mutex hands the
\* lock to each waiter in turn
Fairness ==
    \A p \in Callers : SF_vars(acquire(p)) /\ WF_vars(run(p))

SpecFair == Init /\ [][NextLive]_vars /\ Fairness

\* a caller whose get has succeeded returns from it, dropping that guard, and
\* calls update for the id it has just read: the update awaits the lock anew
get_then_update(p, todo_data) ==
    /\ pc[p] = "return"
    /\ req[p].op = "get"
    /\ ret[p].kind = "Ok"
    /\ mutex' = IF repo_called[p] > 0 THEN NoCaller ELSE mutex
    /\ pc' = [pc EXCEPT ![p] = "update"]
    /\ req' = [req EXCEPT ![p] =
                [layer |-> req[p].layer, op |-> "update", id |-> req[p].id,
                 task |-> todo_data.task, conc |-> FALSE, after_get |-> TRUE]]
    /\ ret' = [ret EXCEPT ![p] = NoRet]
    /\ expect' = [expect EXCEPT ![p] = NoRet]
    /\ repo_called' = [repo_called EXCEPT ![p] = 1]
    /\ trace' = [trace EXCEPT ![p] = NoTrace]
    /\ UNCHANGED <<data, next_id, created, deleted, fresh, serial>>
    /\ UNCHANGED server_vars

\* callers of the repository, some of which read a Todo before they update it
NextClient ==
    \/ NextRepo
    \/ \E p \in Callers, t \in Tasks : get_then_update(p, TodoData(t))

SpecClient == Init /\ [][NextClient]_vars

\* the store reached through the service only, as in the running server
NextService ==
    \E p \in Callers :
        \/ \E t \in Tasks : service_create(p, TodoData(t))
        \/ \E i \in TodoIds : service_get(p, i)
        \/ service_list(p)
        \/ \E i \in TodoIds : service_delete(p, i)
        \/ \E i \in TodoIds, t \in Tasks : service_update(p, Todo(i, t))
        \/ create(p)
        \/ create_last_id(p)
        \/ create_insert(p)
        \/ get(p)
        \/ list(p)
        \/ delete(p)
        \/ update(p)
        \/ return(p)

SpecService == Init /\ [][NextService]_vars

\* The server. Each worker runs the closure given to HttpServer::new once and
\* then answers requests through the controller it built. An operation holds
\* the lock of its repository for its whole body, so it is one step here.

\* a closure that builds a repository of its own for the worker
factory_new_repo(w) ==
    /\ todo_service[w] = NoService
    /\ heap' = Append(heap, new)
    /\ todo_service' = [todo_service EXCEPT ![w] = Len(heap) + 1]
    /\ UNCHANGED <<response, made>>
    /\ UNCHANGED repo_vars

\* let todo_service = todo_service::new(todo_repo.clone());
\* let todo_controller = todo_controller::new(todo_service)
factory(w) ==
    /\ todo_service[w] = NoService
    /\ todo_service' = [todo_service EXCEPT ![w] = clone(todo_repo)]
    /\ UNCHANGED <<heap, response, made>>
    /\ UNCHANGED repo_vars

\* the worker's controller answers with r, having left d behind the Mutex
answer(w, op, id, d, r) ==
    /\ todo_service[w] # NoService
    /\ response[w] = NoResponse
    /\ heap' = [heap EXCEPT ![todo_service[w]] = d]
    /\ response' = [response EXCEPT ![w] =
                        [op |-> op, id |-> id, ret |-> controller_result(op, r),
                         seen |-> Len(made)]]
    /\ UNCHANGED todo_service
    /\ UNCHANGED repo_vars

worker_create(w, todo_data) ==
    /\ todo_service[w] # NoService
    /\ Len(made) < MaxCreates
    /\ LET d == heap[todo_service[w]]
           t == From_api_TodoData(todo_data)
           v == validate_task(t.task)
       IN  IF v.kind = "Err"
           THEN /\ answer(w, "create", 0, d, Err(v.err))
                /\ UNCHANGED made
           ELSE LET id == create_next(d)
                    r  == create_store(create_set_last(d, id), id, t)
                IN  /\ answer(w, "create", 0, r.data, service_result("create", r.ret))
                    /\ made' = Append(made, [worker |-> w,
                                             todo |-> From_domain_Todo(r.ret.todo)])

worker_get(w, todo_id) ==
    /\ todo_service[w] # NoService
    /\ LET r == get_body(heap[todo_service[w]], From_api_TodoId(todo_id))
       IN  answer(w, "get", todo_id, r.data, service_result("get", r.ret))
    /\ UNCHANGED made

worker_list(w) ==
    /\ todo_service[w] # NoService
    /\ \E order \in iter(heap[todo_service[w]].storage) :
          LET r == list_body(heap[todo_service[w]], order)
          IN  answer(w, "list", 0, r.data, service_result("list", r.ret))
    /\ UNCHANGED made

\* the response is sent
respond(w) ==
    /\ response[w] # NoResponse
    /\ response' = [response EXCEPT ![w] = NoResponse]
    /\ UNCHANGED <<heap, todo_service, made>>
    /\ UNCHANGED repo_vars

NextServer ==
    \E w \in Workers :
        \/ factory(w)
        \/ \E t \in Tasks : worker_create(w, TodoData(t))
        \/ \E i \in TodoIds : worker_get(w, i)
        \/ worker_list(w)
        \/ respond(w)

SpecServer == Init /\ [][NextServer]_vars

\* a create on a store that may already have handed out every id up to the
\* largest one
repo_create_at_max(p, todo_data) ==
    CanCreateUpTo(U64_MAX + 2) /\ invoke(p, "repo", "create", 0, todo_data.task)

\* creates until the counter has passed its largest value
NextOverflow ==
    \E p \in Callers :
        \/ \E t \in Tasks : repo_create_at_max(p, TodoData(t))
        \/ create(p)
        \/ create_last_id(p)
        \/ create_insert(p)
        \/ return(p)

SpecOverflow == Init /\ [][NextOverflow]_vars

TypeOK ==
    /\ data.last_id \in 0..MaxCreates
    /\ DOMAIN data.storage \subseteq 1..MaxCreates
    /\ mutex \in Callers \cup {NoCaller}

----------------------------------------------------------------------------
\* Properties

ReturnedTodo(p) == ret[p].todo
Returning(p, op) == pc[p] = "return" /\ req[p].op = op
NotFoundFor(rq) ==
    CASE rq.layer = "repo" -> Err(TodoRepoErr_NotFound(rq.id))
      [] rq.op = "update"  ->
            Err(TodoServiceUpdateErr_LookupErr(TodoServiceLookupErr_NotFound(rq.id)))
      [] OTHER             -> Err(TodoServiceLookupErr_NotFound(rq.id))
IsDataErr(r) ==
    /\ r.kind = "Err"
    /\ r.err.enum \in {"TodoServiceDataErr::InvalidData", "TodoServiceUpdateErr::DataErr"}

\* C1: the ids returned by successive create calls are strictly increasing,
\* so no id is returned twice, also when deletes happen between the creates.
C1_IdsStrictlyIncreasing ==
    \A i, j \in DOMAIN created : i < j => created[i] < created[j]

\* a second create returns id 2 after id 1 has been deleted
C1_Witness ==
    \E p \in Callers :
        /\ Returning(p, "create")
        /\ ret[p].kind # "Err"
        /\ ReturnedTodo(p).id = 2
        /\ 1 \in deleted
        /\ created = <<1, 2>>

\* C2: creates issued concurrently get pairwise distinct ids, each returned id
\* has its own entry (holding the task it was created with until that id is
\* updated or deleted), and no counter increment is lost.
C2_ConcurrentCreatesDistinct ==
    /\ \A i, j \in DOMAIN created : i # j => created[i] # created[j]
    /\ \A i \in DOMAIN created : created[i] \in DOMAIN data.storage \cup deleted
    /\ \A id \in DOMAIN fresh :
        /\ id \in DOMAIN data.storage
        /\ data.storage[id].task = fresh[id].task
    /\ Len(created) <= data.last_id

\* a create that was issued while another caller's create was in flight has
\* returned, and so has the other one
C2_Witness ==
    \E p \in Callers :
        /\ Returning(p, "create")
        /\ req[p].conc
        /\ Len(created) = 2
        /\ \A q \in Callers \ {p} : req[q].op # "create"

\* C3: the store behaves like the sequential map-plus-counter stepped in
\* lock-acquisition order: every repository call returns what the sequential
\* store returned for it, and outside the statements of a create in progress
\* the locked data equals the sequential store, so no get or list sees a
\* partly applied create, update or delete.
C3_SerialInAcquisitionOrder ==
    /\ \A p \in Callers :
        (pc[p] = "return" /\ repo_called[p] > 0) => ret[p] = expect[p]
    /\ (\A p \in Callers : pc[p] \notin {"create_last_id", "create_insert"})
            => data = serial
    /\ \A p \in Callers :
        pc[p] \in {"create_last_id", "create_insert"} => mutex = p

\* a list returns a non-empty result while another caller's create waits
C3_Witness ==
    \E p, q \in Callers :
        /\ Returning(p, "list")
        /\ ret[p].vec # <<>>
        /\ pc[q] = "create"

\* C4: create returns a Todo with the task it was given, and a get of that id
\* with no update or delete of the id in between returns Ok with that Todo.
C4_RoundTrip ==
    \A p \in Callers :
        /\ (Returning(p, "create") /\ req[p].task # "")
            => /\ ReturnedTodo(p).task = req[p].task
               /\ ReturnedTodo(p).id \in DOMAIN fresh
               /\ fresh[ReturnedTodo(p).id] = ReturnedTodo(p)
        /\ (Returning(p, "get") /\ req[p].id \in DOMAIN fresh
                /\ fresh[req[p].id].task # "")
            => ret[p] = Ok_Todo(fresh[req[p].id])

\* a get returns a Todo that create returned and nobody has touched since
C4_Witness ==
    \E p \in Callers :
        /\ Returning(p, "get")
        /\ req[p].id \in DOMAIN fresh
        /\ fresh[req[p].id].task = "a"
        /\ ret[p] = Ok_Todo(Todo(req[p].id, "a"))

\* C5: service create and update reject a task exactly when it is the empty
\* string, with a DataErr InvalidData carrying the task; every other text,
\* whitespace-only included, is passed on to the repository.
C5_InvalidIffEmpty ==
    \A p \in Callers :
        (InFlight(p) /\ req[p].layer = "service" /\ req[p].op \in {"create", "update"})
        => IF req[p].task = ""
           THEN /\ pc[p] = "return"
                /\ repo_called[p] = 0
                /\ ret[p] = IF req[p].op = "create"
                            THEN Err(TodoServiceDataErr_InvalidData(req[p].task))
                            ELSE Err(TodoServiceUpdateErr_DataErr(
                                        TodoServiceDataErr_InvalidData(req[p].task)))
           ELSE /\ repo_called[p] = 1
                /\ ~IsDataErr(ret[p])

\* a whitespace-only task went through service create to the repository
C5_Witness ==
    \E p \in Callers :
        /\ Returning(p, "create")
        /\ req[p].layer = "service"
        /\ req[p].task = " "
        /\ ret[p] = Ok_Todo(Todo(ReturnedTodo(p).id, " "))
        /\ repo_called[p] = 1

\* C6: a service create or update that fails with a DataErr never calls the
\* repository, and no step of that call changes the entries, the stored
\* descriptions or last_id.
C6_RejectedCallHasNoEffect ==
    [][\A p \in Callers :
        ((IsDataErr(ret[p]) \/ IsDataErr(ret'[p])) /\ pc'[p] # pc[p])
        => /\ data' = data
           /\ repo_called[p] = 0
           /\ repo_called'[p] = 0]_vars

\* a service update is rejected while the store holds entries
C6_Witness ==
    \E p \in Callers :
        /\ Returning(p, "update")
        /\ IsDataErr(ret[p])
        /\ DOMAIN data.storage # {}
        /\ data.last_id = 2

\* C7: once delete(id) has returned Ok, every later get(id) fails with
\* NotFound(id), whatever was created in between.
C7_DeletedStaysGone ==
    /\ deleted \cap DOMAIN data.storage = {}
    /\ \A p \in Callers :
        (Returning(p, "get") /\ req[p].id \in deleted) => ret[p] = NotFoundFor(req[p])

\* get(1) fails after delete(1), with a later create in the store
C7_Witness ==
    \E p \in Callers :
        /\ Returning(p, "get")
        /\ req[p].id = 1
        /\ 1 \in deleted
        /\ 2 \in DOMAIN data.storage
        /\ ret[p].kind = "Err"

\* C8: update of an id that is present returns Ok, afterwards get(id) returns
\* the Todo with the same id and the new task, and the set of keys (hence the
\* number of entries) is unchanged.
C8_UpdateOk ==
    [][\A p \in Callers :
        (pc[p] = "update" /\ pc'[p] = "return" /\ req[p].id \in DOMAIN data.storage)
        => /\ ret'[p] = Ok_Unit
           /\ get_body(data', req[p].id).ret = Ok_Todo(Todo(req[p].id, req[p].task))
           /\ DOMAIN data'.storage = DOMAIN data.storage
           /\ Cardinality(DOMAIN data'.storage) = Cardinality(DOMAIN data.storage)]_vars

\* an update has replaced the description of a task created with another one
C8_Witness ==
    \E p \in Callers :
        /\ Returning(p, "update")
        /\ ret[p] = Ok_Unit
        /\ req[p].task = "a"
        /\ data.storage[req[p].id].task = "a"
        /\ Cardinality(DOMAIN data.storage) = 2

\* C9: update or delete of an id that is not in the store returns NotFound
\* with that id and leaves the map and last_id as they were.
C9_AbsentIdNoEffect ==
    [][\A p \in Callers :
        (pc[p] \in {"update", "delete"} /\ pc'[p] = "return"
            /\ req[p].id \notin DOMAIN data.storage)
        => /\ ret'[p] = NotFoundFor(req[p])
           /\ data' = data]_vars

\* an update of an absent id has returned NotFound from a non-empty store
C9_Witness ==
    \E p \in Callers :
        /\ Returning(p, "update")
        /\ ret[p] = NotFoundFor(req[p])
        /\ req[p].id \notin DOMAIN data.storage
        /\ DOMAIN data.storage # {}

\* C10: list returns exactly the stored tasks, each once, with their current
\* descriptions, in strictly ascending id order; the empty store gives the
\* empty sequence.
C10_ListSortedAndExact ==
    \A p \in Callers :
        Returning(p, "list") =>
            LET v == ret[p].vec IN
            /\ Len(v) = Cardinality(DOMAIN data.storage)
            /\ \A i \in DOMAIN v :
                /\ v[i].id \in DOMAIN data.storage
                /\ v[i].task = data.storage[v[i].id].task
            /\ \A i, j \in DOMAIN v : i < j => v[i].id < v[j].id
            /\ (DOMAIN data.storage = {}) => v = <<>>

\* a list of two stored tasks
C10_Witness ==
    \E p \in Callers :
        /\ Returning(p, "list")
        /\ Len(ret[p].vec) = 2
        /\ ret[p].vec[1].id = 1

Issued == {created[i] : i \in DOMAIN created}

\* C11: get, delete and update with a non-empty task on an id that was never
\* issued fail with NotFound carrying the requested id at the repository, at
\* the service (inside UpdateErr::LookupErr for update) and at the controller
\* (inside TodoControllerUpdateErr::LookupErr for update).
C11_NotFoundAtEveryLayer ==
    \A p \in Callers :
        (/\ pc[p] = "return"
         /\ req[p].op \in {"get", "delete", "update"}
         /\ req[p].op = "update" => req[p].task # ""
         /\ req[p].id \notin Issued)
        => LET id == req[p].id IN
           /\ trace[p].repo = Err(TodoRepoErr_NotFound(id))
           /\ trace[p].service =
                IF req[p].op = "update"
                THEN Err(TodoServiceUpdateErr_LookupErr(TodoServiceLookupErr_NotFound(id)))
                ELSE Err(TodoServiceLookupErr_NotFound(id))
           /\ trace[p].controller =
                IF req[p].op = "update"
                THEN Err(TodoControllerUpdateErr_LookupErr(
                            TodoControllerLookupErr_NotFound(id)))
                ELSE Err(TodoControllerLookupErr_NotFound(id))
           /\ req[p].layer = "controller" => ret[p] = trace[p].controller

\* a controller update of the id past every id issued so far has failed,
\* with tasks in the store
C11_Witness ==
    \E p \in Callers :
        /\ Returning(p, "update")
        /\ req[p].layer = "controller"
        /\ req[p].task = "a"
        /\ req[p].id = MaxCreates + 1
        /\ created # <<>>
        /\ ret[p].kind = "Err"
        /\ ret[p].err.inner.id = req[p].id

\* C12: a service UpdateErr::DataErr becomes TodoControllerUpdateErr::DataErr
\* and the handler's BadTask (400) with the task text, a service
\* UpdateErr::LookupErr becomes TodoControllerUpdateErr::LookupErr and the
\* handler's NoSuchTask (404) with the id; a failed update is never answered Ok.
C12_UpdateCausePreserved ==
    \A p \in Callers :
        (Returning(p, "update") /\ trace[p].service.kind = "Err")
        => /\ ret[p].kind = "Err"
           /\ IF trace[p].service.err.enum = "TodoServiceUpdateErr::DataErr"
              THEN /\ trace[p].service.err.inner =
                        TodoServiceDataErr_InvalidData(req[p].task)
                   /\ trace[p].controller =
                        Err(TodoControllerUpdateErr_DataErr(
                                TodoControllerDataErr_InvalidData(req[p].task)))
                   /\ req[p].layer = "handler" =>
                        /\ ret[p] = Err(BadTask(req[p].task))
                        /\ error_response(ret[p].err).status = 400
                        /\ error_response(ret[p].err).json.arg = req[p].task
              ELSE /\ trace[p].service.err =
                        TodoServiceUpdateErr_LookupErr(
                            TodoServiceLookupErr_NotFound(req[p].id))
                   /\ trace[p].controller =
                        Err(TodoControllerUpdateErr_LookupErr(
                                TodoControllerLookupErr_NotFound(req[p].id)))
                   /\ req[p].layer = "handler" =>
                        /\ ret[p] = Err(NoSuchTask(req[p].id))
                        /\ error_response(ret[p].err).status = 404
                        /\ error_response(ret[p].err).json.arg = req[p].id

\* the update handler answers 400 for an empty task while another caller's
\* update of a missing id is under way
C12_Witness ==
    \E p, q \in Callers :
        /\ Returning(p, "update")
        /\ req[p].layer = "handler"
        /\ ret[p] = Err(BadTask(""))
        /\ error_response(ret[p].err).status = 400
        /\ pc[q] = "update"
        /\ req[q].id \notin DOMAIN data.storage

\* C18: one call of a controller operation makes exactly one call of the
\* service operation, also for data the service rejects; one call of a service
\* operation makes exactly one call of the same repository operation when
\* validation passes and none when it fails.
C18_SingleRoundTrip ==
    \A p \in Callers :
        InFlight(p) =>
            /\ req[p].layer \in {"controller", "handler"} => trace[p].service_called = 1
            /\ repo_called[p] =
                IF req[p].op \in {"create", "update"} /\ req[p].task = "" THEN 0 ELSE 1
            /\ pc[p] \in {"return", req[p].op}
                    \cup (IF req[p].op = "create"
                          THEN {"create_last_id", "create_insert"} ELSE {})

\* the controller has called the service once for an update the service
\* rejected, and the repository was not called
C18_Witness ==
    \E p \in Callers :
        /\ Returning(p, "update")
        /\ req[p].layer = "controller"
        /\ req[p].task = ""
        /\ trace[p].service_called = 1
        /\ repo_called[p] = 0

\* C19: an update with an empty task fails with UpdateErr::DataErr whether or
\* not the id is in the store, never with LookupErr, and the handler answers
\* 400.
C19_EmptyTaskBeforeLookup ==
    \A p \in Callers :
        (Returning(p, "update") /\ req[p].task = "")
        => /\ trace[p].service =
                Err(TodoServiceUpdateErr_DataErr(TodoServiceDataErr_InvalidData("")))
           /\ req[p].layer = "handler" =>
                /\ ret[p] = Err(BadTask(""))
                /\ error_response(ret[p].err).status = 400

\* the handler has answered an empty-task update of an id that is not in the
\* store, which holds other tasks
C19_Witness ==
    \E p \in Callers :
        /\ Returning(p, "update")
        /\ req[p].layer = "handler"
        /\ req[p].task = ""
        /\ req[p].id \notin DOMAIN data.storage
        /\ DOMAIN data.storage # {}
        /\ error_response(ret[p].err).status = 400

\* C13: on a new store the first create returns id 1 and the second id 2;
\* after create("say hello"), create("say bye") and delete(1), list returns
\* exactly [Todo{id: 2, task: "say bye"}] and get(1) fails with NotFound(1).
C13_Scenario ==
    /\ \A i \in DOMAIN created : created[i] = i
    /\ \A p \in Callers :
        Returning(p, "create") =>
            ret[p] = Val_Todo(Todo(Len(created), req[p].task))
    /\ (created = <<1, 2>> /\ deleted = {1}
            /\ fresh = insert(<<>>, 2, Todo(2, "say bye"))) =>
        \A p \in Callers :
            /\ Returning(p, "list") => ret[p] = Val_Vec(<<Todo(2, "say bye")>>)
            /\ (Returning(p, "get") /\ req[p].id = 1) => ret[p] = Err(TodoRepoErr_NotFound(1))

\* after the two creates and delete(1), get(1) has failed while the other
\* caller waits to list
C13_Witness ==
    \E p, q \in Callers :
        /\ created = <<1, 2>>
        /\ deleted = {1}
        /\ Returning(p, "get")
        /\ ret[p] = Err(TodoRepoErr_NotFound(1))
        /\ pc[q] = "list"
        /\ fresh = insert(<<>>, 2, Todo(2, "say bye"))

\* C14: create never fails, whatever last_id is: it takes next_id =
\* last_id + 1, sets last_id to it, inserts under a key that was not in the
\* map and returns the Todo with that id.
C14_CreateNeverFails ==
    [][\A p \in Callers :
        /\ (pc[p] = "create" /\ pc'[p] # "create")
            => /\ pc'[p] = "create_last_id"
               /\ next_id'[p] = data.last_id + 1
        /\ (pc[p] = "create_insert" /\ pc'[p] # "create_insert")
            => /\ ret'[p] = Val_Todo(Todo(next_id[p], req[p].task))
               /\ data'.last_id = next_id[p]
               /\ next_id[p] \notin DOMAIN data.storage
               /\ next_id[p] \in DOMAIN data'.storage]_vars

\* C15: under fair scheduling no repository operation blocks for ever: every
\* call that has started returns, on success and on NotFound alike, and a
\* caller that has returned no longer holds the lock.
C15_NoOperationBlocks ==
    /\ [](\A p \in Callers : pc[p] = "idle" => mutex # p)
    /\ \A p \in Callers : InFlight(p) ~> (pc[p] = "idle")

\* one caller waits for the lock while the holder is about to return NotFound
C15_Witness ==
    \E p, q \in Callers :
        /\ pc[p] \in {"create", "get", "list", "delete", "update"}
        /\ mutex = q
        /\ pc[q] = "return"
        /\ ret[q].kind = "Err"

\* C16: a get followed by an update of the same id by one caller is not
\* atomic: another caller's delete can run in between, and the update then
\* returns NotFound for the id and does not put the Todo back.
C16_UpdateAfterGetNotAtomic ==
    \A p \in Callers :
        (Returning(p, "update") /\ req[p].after_get /\ req[p].id \in deleted)
            => /\ ret[p] = NotFoundFor(req[p])
               /\ req[p].id \notin DOMAIN data.storage

\* the get succeeded, the other caller's delete of the id succeeded, and the
\* update that followed the get has returned NotFound
C16_Witness ==
    \E p \in Callers :
        /\ Returning(p, "update")
        /\ req[p].after_get
        /\ req[p].id \in deleted
        /\ ret[p] = Err(TodoRepoErr_NotFound(req[p].id))
        /\ data.storage = <<>>

\* C17: get and list never change the store: across a get or a list, from
\* the call to its return, last_id and storage stay as they were.
C17_ReadsLeaveStore ==
    [][\A p \in Callers :
        (/\ \/ pc[p] \in {"get", "list"}
            \/ pc[p] = "return" /\ req[p].op \in {"get", "list"}
         /\ pc'[p] # pc[p])
            => data' = data]_vars

\* a get has found its Todo and a list has returned a non-empty Vec
C17_Witness ==
    \E p \in Callers :
        /\ data.storage # <<>>
        /\ \/ Returning(p, "get") /\ ret[p].kind = "Ok"
           \/ Returning(p, "list") /\ ret[p].kind # "Err" /\ ret[p] # Val_Vec(<<>>)

\* C20: every key of storage lies in 1..last_id, so storage has at most
\* last_id entries, and last_id + 1 is never a key already.
C20_KeysWithinLastId ==
    /\ \A id \in DOMAIN data.storage : 1 <= id /\ id <= data.last_id
    /\ Cardinality(DOMAIN data.storage) <= data.last_id
    /\ data.last_id + 1 \notin DOMAIN data.storage

\* ids 1 and 2 were issued, 1 was deleted and 2 is still stored
C20_Witness ==
    /\ data.last_id = 2
    /\ DOMAIN data.storage = {2}
    /\ deleted = {1}

\* C21: when the store is reached only through the service, no stored task
\* is ever empty, and neither is the task of any Todo returned by get or list.
C21_NoEmptyTaskThroughService ==
    /\ \A id \in DOMAIN data.storage : data.storage[id].task # ""
    /\ \A p \in Callers :
        /\ (Returning(p, "get") /\ ret[p].kind = "Ok") => ret[p].todo.task # ""
        /\ Returning(p, "list") =>
            \A i \in DOMAIN ret[p].vec : ret[p].vec[i].task # ""

\* an update with an empty task was rejected while the entry it aimed at is
\* stored, and a list has returned that entry
C21_Witness ==
    \E p, q \in Callers :
        /\ Returning(p, "update")
        /\ req[p].task = ""
        /\ req[p].id \in DOMAIN data.storage
        /\ IsDataErr(ret[p])
        /\ Returning(q, "list")
        /\ ret[q].vec # <<>>

\* C23: update and delete affect only the targeted entry: a successful
\* update(t) changes only the task stored under t.id, a successful delete(id)
\* removes only the entry of id, and neither changes last_id or the task of
\* any other id.
C23_OnlyTargetedEntry ==
    [][\A p \in Callers :
        (pc[p] \in {"update", "delete"} /\ pc'[p] = "return") =>
            /\ data'.last_id = data.last_id
            /\ \A id \in DOMAIN data.storage \ {req[p].id} :
                /\ id \in DOMAIN data'.storage
                /\ data'.storage[id] = data.storage[id]
            /\ DOMAIN data'.storage \subseteq DOMAIN data.storage
            /\ (pc[p] = "update" /\ ret'[p].kind = "Ok") =>
                /\ DOMAIN data'.storage = DOMAIN data.storage
                /\ data'.storage[req[p].id].task = req[p].task
            /\ (pc[p] = "delete" /\ ret'[p].kind = "Ok") =>
                DOMAIN data'.storage = DOMAIN data.storage \ {req[p].id}
            /\ ret'[p].kind = "Err" => data' = data]_vars

\* an update of one of two stored entries has succeeded and changed it while
\* the other entry keeps a different task
C23_Witness ==
    \E p \in Callers :
        /\ Returning(p, "update")
        /\ ret[p].kind = "Ok"
        /\ Cardinality(DOMAIN data.storage) = 2
        /\ \E id \in DOMAIN data.storage :
            /\ id # req[p].id
            /\ data.storage[id].task # req[p].task

\* C22: all workers operate on one store: the repository is built once, every
\* worker's service holds a clone that refers to the same locked Data, a Todo
\* created through one worker's controller is returned by get and by list
\* through every worker's controller, and ids are unique across workers.
C22_WorkersShareOneStore ==
    /\ Len(heap) = 1
    /\ \A w \in Workers : todo_service[w] \in {NoService, todo_repo}
    /\ \A i, j \in DOMAIN made : i # j => made[i].todo.id # made[j].todo.id
    /\ \A w \in Workers, i \in DOMAIN made :
        i <= response[w].seen =>
        /\ (response[w].op = "get" /\ response[w].id = made[i].todo.id)
            => response[w].ret = Ok_Todo(made[i].todo)
        /\ response[w].op = "list"
            => \E k \in DOMAIN response[w].ret.vec :
                    response[w].ret.vec[k] = made[i].todo

\* each worker has created a Todo, and one worker's get has returned the Todo
\* the other one created
C22_Witness ==
    \E w, v \in Workers, i, j \in DOMAIN made :
        /\ w # v
        /\ made[i].worker = v
        /\ made[j].worker = w
        /\ response[w].op = "get"
        /\ response[w].ret = Ok_Todo(made[i].todo)

====
